---- MODULE Spec2Model ----
(***************************************************************************)
(* The robot command line client of gapid: the `set track` verb            *)
(* (doTrackUpdate), the four `search` verbs (doArtifactSearch,              *)
(* doPackageSearch, doTrackSearch, doStashSearch) and the `upload build`    *)
(* uploader (buildUploader.prepare / buildUploader.process), and the        *)
(* vertex stream labelling pass of the GLES API (guessSemantics).           *)
(*                                                                         *)
(* Every verb runs synchronously inside one grpcutil.Client callback; the   *)
(* remote store and the other collaborators (git, os/user, script.Parse,    *)
(* stashgrpc.Connect) are the environment: each of their outcomes is drawn  *)
(* from a small set.                                                        *)
(***************************************************************************)
EXTENDS Integers, Sequences, FiniteSets, TLC

VARIABLES
    verb,        \* the verb being run
    args,        \* flags.Args(): the positional arguments
    buildFlags,  \* the package-level buildFlags struct
    tracks,      \* the tracks held by the remote store
    pc,          \* position of the verb's callback
    pending,     \* entities the running Search call has still to deliver
    budget,      \* entities the running Search call may still deliver
    visited,     \* entities handed to the visitor so far, in order
    track,       \* doTrackUpdate's local `track`
    calls,       \* calls issued on the connection so far, in order
    out,         \* records handed to the output, in order
    result,      \* the error value the verb returned
    supplied,    \* buildFlags as parsed from the command line
    env,         \* outcomes of the collaborators of buildUploader.prepare
    info,        \* buildUploader.info
    returns,     \* the errors returned so far by the uploader's process
                 \* calls, or by the earlier run of the verb, in order
    streams,     \* vb.Streams of the buffer guessSemantics is labelling
    taken,       \* guessSemantics' local `taken`
    rule,        \* index in semanticPatterns of the pattern the loop is at
    given,       \* vb.Streams as they were when guessSemantics was called
    fired        \* the assignments made so far: which rule set which stream

searchVars == <<tracks, pending, budget, visited, track>>
uploadVars == <<supplied, env, info, returns>>
guessVars == <<streams, taken, rule, given, fired>>
vars == <<verb, args, buildFlags, tracks, pc, pending, budget, visited, track,
          calls, out, result, supplied, env, info, returns, streams, taken,
          rule, given, fired>>

-----------------------------------------------------------------------------
(* Bounds of the model *)

\* number of distinct non-empty track ids the store may hold
MaxTracks == 2

\* number of entities a search verb's stream may deliver
MaxStream == 2

\* number of files an upload session processes
MaxFiles == 2

-----------------------------------------------------------------------------
(* Values *)

IdPool == <<"t1", "t2", "t3", "t4">>

\* Track.Id is a string: the empty string is one of its values
TrackIds == {""} \cup {IdPool[i] : i \in 1..MaxTracks}

\* a track may be named like another track's id
TrackNames == {"alpha", IdPool[1]}

Tokens == TrackNames \cup TrackIds \cup {"beta"}

FlagValues == {"", "new"}

\* error values; Nil is Go's nil error
Err(msg, why) == [msg |-> msg, cause |-> why]
Nil == Err("nil", "")
Running == Err("running", "")

\* cause.Explain(ctx, err, msg): a new error with message msg and cause err
Explain(err, msg) == Err(msg, err.msg)

\* an error produced by the remote end of an RPC
RemoteError(rpc) == Err("rpc error: " \o rpc, "")

NoQuery == [text |-> "", bind |-> ""]
NoTrack == [Id |-> "", Name |-> "", Description |-> "", Head |-> ""]
NoFlags == [tag |-> "", cl |-> "", branch |-> "", description |-> "",
            uploader |-> "", name |-> "", pkg |-> ""]
NoEnv == [git |-> FALSE]
NoInfo == [Type |-> "unset"]

\* no vertex buffer is being labelled
NoGuess ==
    /\ streams = <<>>
    /\ taken = {}
    /\ rule = 0
    /\ given = <<>>
    /\ fired = <<>>

\* a call issued on the connection; ret is Running until it returns
Call(rpc, q, t) == [rpc |-> rpc, query |-> q, track |-> t, ret |-> Running]

\* the last call issued returns r
Returned(r) == [calls EXCEPT ![Len(calls)].ret = r]

-----------------------------------------------------------------------------
(* set track: doTrackUpdate *)

\* idOrName = script.MustParse("Id == $ or Name == $").Using("$")
idOrName(token) == [text |-> "Id == $ or Name == $", bind |-> token]

\* the tracks of the store that the bound query selects
Selects(q, t) == t.Id = q.bind \/ t.Name = q.bind

Matching(q) == {t \in tracks : Selects(q, t)}

\* a Track literal that takes its Id from the --name flag
NewTrack_IdFromName(f) == [Id |-> f.name, Name |-> f.name,
                           Description |-> f.description, Head |-> f.pkg]

\* the Track literal doTrackUpdate builds from the flags
NewTrack(f) == [Id |-> "", Name |-> f.name, Description |-> f.description,
                Head |-> f.pkg]

\* a visitor that copies the whole entity it is handed
ResolveVisitor_CopiesEntry(tr, entry) ==
    IF tr.Id # ""
    THEN [track |-> tr, err |-> Explain(Nil, "Multiple tracks matched")]
    ELSE [track |-> entry, err |-> Nil]

\* the visitor handed to SearchTracks: [track, err] after visiting entry
ResolveVisitor(tr, entry) ==
    IF tr.Id # ""
    THEN [track |-> tr, err |-> Explain(Nil, "Multiple tracks matched")]
    ELSE [track |-> [tr EXCEPT !.Id = entry.Id], err |-> Nil]

\* a callback that does not look at the error SearchTracks returned
ResolveOutcome_IgnoresErr(err, tr) ==
    IF tr.Id = "" THEN Explain(Nil, "No tracks matched") ELSE Nil

\* the callback's decision once SearchTracks returned err: the error it
\* returns, or Nil to go on to UpdateTrack
ResolveOutcome(err, tr) ==
    IF err # Nil THEN err
    ELSE IF tr.Id = "" THEN Explain(Nil, "No tracks matched")
    ELSE Nil

\* the callback up to the SearchTracks call (or to UpdateTrack with no args)
DoTrackUpdateBegin ==
    /\ verb = "set track"
    /\ pc = "start"
    /\ track' = NewTrack(buildFlags)
    /\ IF Len(args) # 0
       THEN /\ calls' = Append(calls, Call("SearchTracks", idOrName(args[1]), NoTrack))
            /\ pending' = Matching(idOrName(args[1]))
            /\ pc' = "resolving"
       ELSE /\ calls' = calls
            /\ pending' = pending
            /\ pc' = "update"
    /\ UNCHANGED <<verb, args, buildFlags, tracks, budget, visited, out, result>>
    /\ UNCHANGED uploadVars
    /\ UNCHANGED guessVars

\* SearchTracks has returned err with the local track being tr
SearchTracksReturns(err, tr) ==
    /\ calls' = Returned(err)
    /\ IF ResolveOutcome(err, tr) # Nil
       THEN /\ result' = ResolveOutcome(err, tr)
            /\ pc' = "done"
       ELSE /\ result' = result
            /\ pc' = "update"

\* SearchTracks delivers one more matching track to the visitor; a visitor
\* error stops the stream and is what SearchTracks returns
TrackVisit ==
    /\ verb = "set track"
    /\ pc = "resolving"
    /\ \E entry \in pending :
         LET r == ResolveVisitor(track, entry) IN
         /\ pending' = pending \ {entry}
         /\ visited' = Append(visited, entry)
         /\ track' = r.track
         /\ IF r.err # Nil
            THEN SearchTracksReturns(r.err, r.track)
            ELSE UNCHANGED <<calls, result, pc>>
    /\ UNCHANGED <<verb, args, buildFlags, tracks, budget, out>>
    /\ UNCHANGED uploadVars
    /\ UNCHANGED guessVars

\* SearchTracks fails at the remote end
SearchTracksFail ==
    /\ verb = "set track"
    /\ pc = "resolving"
    /\ SearchTracksReturns(RemoteError("SearchTracks"), track)
    /\ UNCHANGED <<verb, args, buildFlags, out>>
    /\ UNCHANGED searchVars
    /\ UNCHANGED uploadVars
    /\ UNCHANGED guessVars

\* the stream is exhausted: SearchTracks returns nil
SearchTracksEnd ==
    /\ verb = "set track"
    /\ pc = "resolving"
    /\ pending = {}
    /\ SearchTracksReturns(Nil, track)
    /\ UNCHANGED <<verb, args, buildFlags, out>>
    /\ UNCHANGED searchVars
    /\ UNCHANGED uploadVars
    /\ UNCHANGED guessVars

\* the track the store answers UpdateTrack with
Updated(t) == t

\* what the callback logs once UpdateTrack returned (t, err)
Logged(t, err) == IF err # Nil THEN <<>> ELSE <<t>>

\* the single UpdateTrack call and the rest of the callback
UpdateTrack ==
    /\ verb = "set track"
    /\ pc = "update"
    /\ \E err \in {Nil, RemoteError("UpdateTrack")} :
         /\ calls' = Append(calls, [Call("UpdateTrack", NoQuery, track)
                                       EXCEPT !.ret = err])
         /\ track' = IF err = Nil THEN Updated(track) ELSE track
         /\ out' = out \o Logged(Updated(track), err)
         /\ result' = err
    /\ pc' = "done"
    /\ UNCHANGED <<verb, args, buildFlags, tracks, pending, budget, visited>>
    /\ UNCHANGED uploadVars
    /\ UNCHANGED guessVars

\* the stores the model starts from: track ids are unique
StoredTrack(id, name) == [Id |-> id, Name |-> name, Description |-> "old",
                          Head |-> "p0"]

TrackSets ==
    UNION {{{StoredTrack(i, f[i]) : i \in S} : f \in [S -> TrackNames]} :
           S \in SUBSET TrackIds}

TrackFlags ==
    {[NoFlags EXCEPT !.name = n, !.description = d, !.pkg = p] :
        n \in FlagValues, d \in FlagValues, p \in FlagValues}

InitTrack ==
    /\ verb = "set track"
    /\ args \in {<<>>} \cup {<<t>> : t \in Tokens}
    /\ buildFlags \in TrackFlags
    /\ supplied = buildFlags
    /\ tracks \in TrackSets
    /\ pc = "start"
    /\ pending = {}
    /\ budget = 0
    /\ visited = <<>>
    /\ track = NoTrack
    /\ calls = <<>>
    /\ out = <<>>
    /\ result = Running
    /\ env = NoEnv
    /\ info = NoInfo
    /\ returns = <<>>
    /\ NoGuess

NextTrack ==
    \/ DoTrackUpdateBegin
    \/ TrackVisit
    \/ SearchTracksFail
    \/ SearchTracksEnd
    \/ UpdateTrack

SpecTrack == InitTrack /\ [][NextTrack]_vars

-----------------------------------------------------------------------------
(* set track run twice with the same command line *)

\* the store once it has applied UpdateTrack(t): the track of that Id is
\* replaced by the updated track
StoreUpdate(S, t) == {x \in S : x.Id # t.Id} \cup {Updated(t)}

\* the UpdateTrack step of doTrackUpdate, with the store applying the update
UpdateTrackStored ==
    /\ verb = "set track"
    /\ pc = "update"
    /\ \E err \in {Nil, RemoteError("UpdateTrack")} :
         /\ calls' = Append(calls, [Call("UpdateTrack", NoQuery, track)
                                       EXCEPT !.ret = err])
         /\ track' = IF err = Nil THEN Updated(track) ELSE track
         /\ tracks' = IF err = Nil THEN StoreUpdate(tracks, track) ELSE tracks
         /\ out' = out \o Logged(Updated(track), err)
         /\ result' = err
    /\ pc' = "done"
    /\ UNCHANGED <<verb, args, buildFlags, pending, budget, visited>>
    /\ UNCHANGED uploadVars
    /\ UNCHANGED guessVars

\* the verb has returned and the same command line is run again: `returns`
\* keeps what the finished run returned
RunAgain ==
    /\ verb = "set track"
    /\ pc = "done"
    /\ budget > 0
    /\ budget' = budget - 1
    /\ returns' = Append(returns, result)
    /\ pc' = "start"
    /\ result' = Running
    /\ pending' = {}
    /\ visited' = <<>>
    /\ track' = NoTrack
    /\ UNCHANGED <<verb, args, buildFlags, tracks, calls, out, supplied, env,
                   info>>
    /\ UNCHANGED guessVars

InitTwice ==
    /\ verb = "set track"
    /\ args \in {<<t>> : t \in Tokens}
    /\ buildFlags \in TrackFlags
    /\ supplied = buildFlags
    /\ tracks \in TrackSets
    /\ pc = "start"
    /\ pending = {}
    /\ budget = 1
    /\ visited = <<>>
    /\ track = NoTrack
    /\ calls = <<>>
    /\ out = <<>>
    /\ result = Running
    /\ env = NoEnv
    /\ info = NoInfo
    /\ returns = <<>>
    /\ NoGuess

NextTwice ==
    \/ DoTrackUpdateBegin
    \/ TrackVisit
    \/ SearchTracksFail
    \/ SearchTracksEnd
    \/ UpdateTrackStored
    \/ RunAgain

SpecTwice == InitTwice /\ [][NextTwice]_vars

-----------------------------------------------------------------------------
(* search artifact | package | track | stash *)

BuildSearchVerbs == {"search artifact", "search package", "search track"}
SearchVerbs == BuildSearchVerbs \cup {"search stash"}

\* the Search method each verb calls on its store
SearchRpc(v) ==
    CASE v = "search artifact" -> "SearchArtifacts"
      [] v = "search package" -> "SearchPackages"
      [] v = "search track" -> "SearchTracks"
      [] v = "search stash" -> "Search"

\* strings.Join(a, sep)
RECURSIVE Join(_, _)
Join(a, sep) ==
    IF Len(a) = 0 THEN ""
    ELSE IF Len(a) = 1 THEN a[1]
    ELSE a[1] \o sep \o Join(Tail(a), sep)

\* the query texts script.Parse accepts, among those the model types
WellFormed == {"Id == 1", "Name == a"}

\* script.Parse(ctx, expression): the error it returns
Parse(expression) ==
    IF expression \in WellFormed THEN Nil
    ELSE Err("parse error in: " \o expression, "")

SearchArgs == {<<"Id", "==", "1">>, <<"Id == 1">>, <<"Name == a">>,
               <<"((">>, <<"Id", "==">>}

\* stashgrpc.Connect(ctx, conn): the errors it may return; the build verbs
\* construct their store with build.NewRemote, which returns no error
ConnectOutcomes(v) ==
    IF v = "search stash" THEN {Nil, Err("stash connect failed", "")} ELSE {Nil}

\* the verb's answer to a parse error that keeps no cause
Malformed_DropsCause(perr) ==
    IF perr # Nil THEN Explain(Nil, "Malformed search query") ELSE Nil

\* the verb's answer to the error script.Parse returned: the error the verb
\* returns, or Nil to go on to the Search call
Malformed(perr) ==
    IF perr # Nil THEN Explain(perr, "Malformed search query") ELSE Nil

\* the entities a store may deliver to a search verb
Entities(v) == {[kind |-> SearchRpc(v), Id |-> IdPool[i]] : i \in 1..2}

\* proto.MarshalText(out, entry): the text form of an entity
MarshalText(e) == "id: \"" \o e.Id \o "\"\n"

\* the errors writing to the output may return
WriteOutcomes == {Nil, Err("write failed", "")}

\* a visitor that returns the error of the write
SearchVisitor_ReturnsWriteError(entry, werr) ==
    [write |-> [rec |-> MarshalText(entry), err |-> werr], err |-> werr]

\* the visitor of the search verbs: the write it makes (werr is what the
\* write returns) and the error the visitor returns
SearchVisitor(entry, werr) ==
    [write |-> [rec |-> MarshalText(entry), err |-> werr], err |-> Nil]

\* the callback up to its Search call
DoSearchBegin ==
    /\ verb \in SearchVerbs
    /\ pc = "start"
    /\ \E cerr \in ConnectOutcomes(verb) :
         LET expression == Join(args, " ")
             connected == IF verb = "search stash"
                          THEN Append(calls, [Call("Connect", NoQuery, NoTrack)
                                                  EXCEPT !.ret = cerr])
                          ELSE calls
         IN
         IF cerr # Nil
         THEN /\ calls' = connected
              /\ result' = cerr
              /\ pc' = "done"
         ELSE IF Malformed(Parse(expression)) # Nil
         THEN /\ calls' = connected
              /\ result' = Malformed(Parse(expression))
              /\ pc' = "done"
         ELSE /\ calls' = Append(connected,
                      Call(SearchRpc(verb), [text |-> expression, bind |-> ""],
                           NoTrack))
              /\ result' = result
              /\ pc' = "searching"
    /\ UNCHANGED <<verb, args, buildFlags, out>>
    /\ UNCHANGED searchVars
    /\ UNCHANGED uploadVars
    /\ UNCHANGED guessVars

\* the Search call returns err
SearchReturns(err) ==
    /\ calls' = Returned(err)
    /\ result' = err
    /\ pc' = "done"

\* the store delivers one more entity to the visitor; a visitor error would
\* stop the stream and be what the Search call returns
SearchVisit ==
    /\ verb \in SearchVerbs
    /\ pc = "searching"
    /\ budget > 0
    /\ \E entry \in Entities(verb), werr \in WriteOutcomes :
         LET r == SearchVisitor(entry, werr) IN
         /\ budget' = budget - 1
         /\ visited' = Append(visited, entry)
         /\ out' = Append(out, r.write)
         /\ IF r.err # Nil
            THEN SearchReturns(r.err)
            ELSE UNCHANGED <<calls, result, pc>>
    /\ UNCHANGED <<verb, args, buildFlags, tracks, pending, track>>
    /\ UNCHANGED uploadVars
    /\ UNCHANGED guessVars

\* the stream ends, or the Search call fails at the remote end
SearchEnd ==
    /\ verb \in SearchVerbs
    /\ pc = "searching"
    /\ \E err \in {Nil, RemoteError(SearchRpc(verb))} : SearchReturns(err)
    /\ UNCHANGED <<verb, args, buildFlags, out>>
    /\ UNCHANGED searchVars
    /\ UNCHANGED uploadVars
    /\ UNCHANGED guessVars

InitSearch ==
    /\ verb \in SearchVerbs
    /\ args \in SearchArgs
    /\ buildFlags = NoFlags
    /\ supplied = buildFlags
    /\ tracks = {}
    /\ pc = "start"
    /\ pending = {}
    /\ budget = MaxStream
    /\ visited = <<>>
    /\ track = NoTrack
    /\ calls = <<>>
    /\ out = <<>>
    /\ result = Running
    /\ env = NoEnv
    /\ info = NoInfo
    /\ returns = <<>>
    /\ NoGuess

NextSearch ==
    \/ DoSearchBegin
    \/ SearchVisit
    \/ SearchEnd

SpecSearch == InitSearch /\ [][NextSearch]_vars

-----------------------------------------------------------------------------
(* upload build: buildUploader.prepare *)

\* the outcomes of prepare's collaborators: git.New, g.HeadCL, g.Status,
\* g.CurrentBranch, user.Current and device.Host
Environments ==
    [git : BOOLEAN,
     clOk : BOOLEAN, sha : {"abc123"}, subject : {"Fix the build"},
     status : {"error", "clean", "dirty"},
     branchOk : BOOLEAN, branchName : {"master"},
     userOk : BOOLEAN, userName : {"alice"},
     host : {"host-1"}]

UploadFlags ==
    {[NoFlags EXCEPT !.tag = t, !.cl = c, !.branch = b, !.description = d,
                     !.uploader = u] :
        t \in {"", "v1"}, c \in {"", "cl-flag"}, b \in {"", "branch-flag"},
        d \in {"", "description-flag"}, u \in {"", "uploader-flag"}}

\* a prepare that treats a failed status like a dirty tree
PrepareType_LocalUnlessClean(e) ==
    IF ~e.git THEN "BuildBot"
    ELSE IF e.status = "clean" THEN "User"
    ELSE "Local"

\* a prepare whose dirty-tree check is overridden by the User assignment
PrepareType_IgnoresStatus(e) ==
    IF ~e.git THEN "BuildBot" ELSE "User"

\* the build type prepare settles on
PrepareType(e) ==
    IF ~e.git THEN "BuildBot"
    ELSE IF e.status = "dirty" THEN "Local"
    ELSE "User"

\* a prepare that guesses the description only while it guesses the cl
PrepareFlags_DescriptionWithCl(f, e) ==
    LET guessCl == e.git /\ e.clOk /\ f.cl = ""
        f1 == IF guessCl THEN [f EXCEPT !.cl = e.sha] ELSE f
        f2 == IF guessCl /\ f1.description = ""
              THEN [f1 EXCEPT !.description = e.subject] ELSE f1
        f3 == IF e.git /\ f2.branch = "" /\ e.branchOk
              THEN [f2 EXCEPT !.branch = e.branchName] ELSE f2
    IN  IF f3.uploader = "" /\ e.userOk
        THEN [f3 EXCEPT !.uploader = e.userName] ELSE f3

\* buildFlags as prepare leaves it
PrepareFlags(f, e) ==
    LET f1 == IF e.git /\ e.clOk /\ f.cl = ""
              THEN [f EXCEPT !.cl = e.sha] ELSE f
        f2 == IF e.git /\ e.clOk /\ f1.description = ""
              THEN [f1 EXCEPT !.description = e.subject] ELSE f1
        f3 == IF e.git /\ f2.branch = "" /\ e.branchOk
              THEN [f2 EXCEPT !.branch = e.branchName] ELSE f2
    IN  IF f3.uploader = "" /\ e.userOk
        THEN [f3 EXCEPT !.uploader = e.userName] ELSE f3

\* a prepare that gives up when there is no git repository
PrepareError_GitIsFatal(e) ==
    IF ~e.git THEN Explain(Err("not a git repository", ""), "Git failed")
    ELSE Nil

\* the error prepare returns: every failure is only logged as a notice
PrepareError(e) == Nil

\* the build.Information prepare constructs
Information(typ, f, e) ==
    [Type |-> typ, Branch |-> f.branch, Cl |-> f.cl, Tag |-> f.tag,
     Description |-> f.description, Builder |-> e.host,
     Uploader |-> f.uploader]

\* buildUploader.prepare
Prepare ==
    /\ verb = "upload build"
    /\ pc = "start"
    /\ IF PrepareError(env) # Nil
       THEN /\ result' = PrepareError(env)
            /\ pc' = "done"
            /\ UNCHANGED <<buildFlags, info>>
       ELSE /\ buildFlags' = PrepareFlags(buildFlags, env)
            /\ info' = Information(PrepareType(env), buildFlags', env)
            /\ result' = Nil
            /\ pc' = "prepared"
    /\ UNCHANGED <<verb, args, calls, out, supplied, env, returns>>
    /\ UNCHANGED searchVars
    /\ UNCHANGED guessVars

\* the ids of the files of the session, in the order they are processed
FilePool == <<"f1", "f2", "f3", "f4">>

SetIds == {"set-1", "set-2"}

\* what store.Add may answer: an error, or a build set id and whether the
\* build was merged into an existing set
AddOutcomes ==
    {[err |-> RemoteError("Add"), setId |-> "", merged |-> FALSE]} \cup
    {[err |-> Nil, setId |-> sid, merged |-> m] : sid \in SetIds, m \in BOOLEAN}

\* the error process returns once Add returned aerr
ProcessError(aerr) ==
    IF aerr # Nil THEN Explain(aerr, "Failed processing build") ELSE Nil

\* a process that reports the two outcomes the wrong way round
ProcessReport_Swapped(r) ==
    IF r.err # Nil THEN <<>>
    ELSE IF r.merged THEN <<"New build set " \o r.setId>>
    ELSE <<"Merged with build set " \o r.setId>>

\* the lines process logs once Add answered r
ProcessReport(r) ==
    IF r.err # Nil THEN <<>>
    ELSE IF r.merged THEN <<"Merged with build set " \o r.setId>>
    ELSE <<"New build set " \o r.setId>>

\* a process that stamps the file id into the shared Information
InfoAfterProcess_TagsFile(inf, id) == [inf EXCEPT !.Tag = id]

\* u.info once process(id) has run: process only reads it
InfoAfterProcess(inf, id) == inf

\* buildUploader.process for the next file of the session
Process ==
    /\ verb = "upload build"
    /\ pc = "prepared"
    /\ budget > 0
    /\ \E r \in AddOutcomes :
         LET id == FilePool[Len(returns) + 1] IN
         /\ calls' = Append(calls, [rpc |-> "Add", id |-> id, info |-> info,
                                     ret |-> r.err, setId |-> r.setId,
                                     merged |-> r.merged])
         /\ out' = out \o ProcessReport(r)
         /\ returns' = Append(returns, ProcessError(r.err))
         /\ info' = InfoAfterProcess(info, id)
    /\ budget' = budget - 1
    /\ UNCHANGED <<verb, args, buildFlags, tracks, pc, pending, visited, track,
                   result, supplied, env>>
    /\ UNCHANGED guessVars

\* a stash uploader whose process fails
StashProcessError_Fails(id) == RemoteError("stash " \o id)

\* the error stashUploader.process returns
StashProcessError(id) == Nil

\* the error stashUploader.prepare returns
StashPrepareError(v) == Nil

\* stashUploader.prepare
StashPrepare ==
    /\ verb = "upload stash"
    /\ pc = "start"
    /\ result' = StashPrepareError(verb)
    /\ pc' = IF StashPrepareError(verb) # Nil THEN "done" ELSE "prepared"
    /\ UNCHANGED <<verb, args, buildFlags, calls, out>>
    /\ UNCHANGED searchVars
    /\ UNCHANGED uploadVars
    /\ UNCHANGED guessVars

\* stashUploader.process for the next file of the session
StashProcess ==
    /\ verb = "upload stash"
    /\ pc = "prepared"
    /\ budget > 0
    /\ returns' = Append(returns, StashProcessError(FilePool[Len(returns) + 1]))
    /\ budget' = budget - 1
    /\ UNCHANGED <<verb, args, buildFlags, tracks, pc, pending, visited, track,
                   calls, out, result, supplied, env, info>>
    /\ UNCHANGED guessVars

UploadVerbs == {"upload build", "upload stash"}

InitUpload ==
    /\ verb \in UploadVerbs
    /\ args = <<>>
    /\ buildFlags \in IF verb = "upload build" THEN UploadFlags ELSE {NoFlags}
    /\ supplied = buildFlags
    /\ env \in Environments
    /\ info = NoInfo
    /\ returns = <<>>
    /\ tracks = {}
    /\ pc = "start"
    /\ pending = {}
    /\ budget = MaxFiles
    /\ visited = <<>>
    /\ track = NoTrack
    /\ calls = <<>>
    /\ out = <<>>
    /\ result = Running
    /\ NoGuess

NextUpload ==
    \/ Prepare
    \/ Process
    \/ StashPrepare
    \/ StashProcess

SpecUpload == InitUpload /\ [][NextUpload]_vars

-----------------------------------------------------------------------------
(* guessSemantics: labelling the streams of a vertex buffer *)

\* a name or a pattern is the sequence of its characters

Upper == <<"A", "B", "C", "D", "E", "F", "G", "H", "I", "J", "K", "L", "M",
           "N", "O", "P", "Q", "R", "S", "T", "U", "V", "W", "X", "Y", "Z">>

Lower == <<"a", "b", "c", "d", "e", "f", "g", "h", "i", "j", "k", "l", "m",
           "n", "o", "p", "q", "r", "s", "t", "u", "v", "w", "x", "y", "z">>

\* strings.ToLower: an upper-case letter becomes its lower-case letter, any
\* other character stays
ToLower(s) ==
    [i \in 1..Len(s) |->
        IF \E k \in 1..Len(Upper) : Upper[k] = s[i]
        THEN Lower[CHOOSE k \in 1..Len(Upper) : Upper[k] = s[i]]
        ELSE s[i]]

\* strings.Contains: substr occurs in s at some offset
Contains(s, substr) ==
    \E k \in 0..(Len(s) - Len(substr)) :
        SubSeq(s, k + 1, k + Len(substr)) = substr

\* ordered from highest priority to lowest
semanticPatterns == <<
    [pattern |-> <<"p", "o", "s", "i", "t", "i", "o", "n">>,
     semantic |-> "Position"],
    [pattern |-> <<"n", "o", "r", "m", "a", "l">>,
     semantic |-> "Normal"],
    [pattern |-> <<"t", "a", "n", "g", "e", "n", "t">>,
     semantic |-> "Tangent"],
    [pattern |-> <<"b", "i", "t", "a", "n", "g", "e", "n", "t">>,
     semantic |-> "Bitangent"],
    [pattern |-> <<"b", "i", "n", "o", "r", "m", "a", "l">>,
     semantic |-> "Bitangent"],
    [pattern |-> <<"t", "e", "x", "c", "o", "o", "r", "d">>,
     semantic |-> "Texcoord"],
    [pattern |-> <<"p", "o", "s">>,
     semantic |-> "Position"],
    [pattern |-> <<"u", "v">>,
     semantic |-> "Texcoord"],
    [pattern |-> <<"v", "e", "r", "t", "e", "x">>,
     semantic |-> "Position"]
>>

\* number of streams of the vertex buffer
MaxVertexStreams == 2

\* the stream names of the buffers
StreamNames == {
    <<"P", "o", "s", "i", "t", "i", "o", "n", "0">>,
    <<"v", "e", "r", "t", "e", "x", "_", "p", "o", "s">>,
    <<"b", "i", "t", "a", "n", "g", "e", "n", "t">>,
    <<"T", "a", "n", "g", "e", "n", "t">>,
    <<"B", "i", "N", "o", "r", "m", "a", "l">>,
    <<"U", "V">>,
    <<"c", "o", "l", "o", "r">>,
    <<"a", "T", "e", "x", "C", "o", "o", "r", "d">>
}

\* the semantic types a stream may carry when guessSemantics is called:
\* Unknown is the zero value of vertex.Semantic_Type, Color is a value no
\* pattern assigns
EntryTypes == {"Unknown", "Color", "Position"}

VertexStream == [Name : StreamNames, Semantic : EntryTypes]

VertexBuffers ==
    UNION {[1..n -> VertexStream] : n \in 0..MaxVertexStreams}

\* the inner loop: the first stream, in buffer order, whose lower-cased name
\* contains the pattern; 0 when the loop ends without a match
FirstMatch(ss, pattern) ==
    LET hits == {j \in 1..Len(ss) : Contains(ToLower(ss[j].Name), pattern)}
    IN  IF hits = {} THEN 0
        ELSE CHOOSE j \in hits : \A k \in hits : j <= k

ApplyPattern_IgnoresTaken(ss, tk, i) ==
    LET p == semanticPatterns[i]
        j == FirstMatch(ss, p.pattern)
    IN  IF j = 0
        THEN [streams |-> ss, taken |-> tk, stream |-> 0]
        ELSE [streams |-> [ss EXCEPT ![j].Semantic = p.semantic],
              taken |-> tk \cup {p.semantic}, stream |-> j]

ApplyPattern_ClearsUnmatched(ss, tk, i) ==
    LET p == semanticPatterns[i]
        j == FirstMatch(ss, p.pattern)
    IN  IF p.semantic \in tk \/ j = 0
        THEN [streams |-> ss, taken |-> tk, stream |-> 0]
        ELSE [streams |->
                 [k \in 1..Len(ss) |->
                     [ss[k] EXCEPT !.Semantic =
                         IF k = j THEN p.semantic ELSE "Unknown"]],
              taken |-> tk \cup {p.semantic}, stream |-> j]

\* one iteration of the loop over semanticPatterns: the streams and `taken`
\* it leaves, and the index of the stream it assigned (0: none)
ApplyPattern(ss, tk, i) ==
    LET p == semanticPatterns[i]
        j == FirstMatch(ss, p.pattern)
    IN  IF p.semantic \in tk \/ j = 0
        THEN [streams |-> ss, taken |-> tk, stream |-> 0]
        ELSE [streams |-> [ss EXCEPT ![j].Semantic = p.semantic],
              taken |-> tk \cup {p.semantic}, stream |-> j]

\* the loop over semanticPatterns advances by one pattern; after the last
\* pattern guessSemantics returns
GuessPattern ==
    /\ verb = "guessSemantics"
    /\ pc = "patterns"
    /\ rule <= Len(semanticPatterns)
    /\ LET r == ApplyPattern(streams, taken, rule)
       IN  /\ streams' = r.streams
           /\ taken' = r.taken
           /\ fired' = IF r.stream = 0 THEN fired
                       ELSE Append(fired, [rule |-> rule, stream |-> r.stream])
    /\ rule' = rule + 1
    /\ pc' = IF rule = Len(semanticPatterns) THEN "done" ELSE "patterns"
    /\ result' = IF rule = Len(semanticPatterns) THEN Nil ELSE result
    /\ UNCHANGED <<verb, args, buildFlags, calls, out, given>>
    /\ UNCHANGED searchVars
    /\ UNCHANGED uploadVars

InitGuess ==
    /\ verb = "guessSemantics"
    /\ given \in VertexBuffers
    /\ streams = given
    /\ taken = {}
    /\ rule = 1
    /\ fired = <<>>
    /\ pc = "patterns"
    /\ result = Running
    /\ args = <<>>
    /\ buildFlags = NoFlags
    /\ supplied = NoFlags
    /\ env = NoEnv
    /\ info = NoInfo
    /\ returns = <<>>
    /\ tracks = {}
    /\ pending = {}
    /\ budget = 0
    /\ visited = <<>>
    /\ track = NoTrack
    /\ calls = <<>>
    /\ out = <<>>

NextGuess == GuessPattern

SpecGuess == InitGuess /\ [][NextGuess]_vars

-----------------------------------------------------------------------------
(* Properties of doTrackUpdate, checked under SpecTrack *)

Resolving == verb = "set track" /\ Len(args) # 0

UpdateCalls == {i \in 1..Len(calls) : calls[i].rpc = "UpdateTrack"}

SearchCalls == {i \in 1..Len(calls) : calls[i].rpc = "SearchTracks"}

NotFound == Explain(Nil, "No tracks matched")
Ambiguous == Explain(Nil, "Multiple tracks matched")

FlagsOnto(id) == [Id |-> id, Name |-> buildFlags.name,
                  Description |-> buildFlags.description,
                  Head |-> buildFlags.pkg]

\* C1: with a token supplied, UpdateTrack is called only if the stream
\* delivered exactly one entity to the visitor, never after zero or after
\* two or more entities.
C1_UpdateOnlyAfterOneEntity ==
    (Resolving /\ UpdateCalls # {}) => Len(visited) = 1

\* C2: with a token supplied and a search that did not fail remotely, the
\* outcome is classified by the number of tracks matching
\* `Id == token or Name == token`: none gives the not-found error, two or
\* more give the ambiguity error, exactly one yields that track's Id.
C2_ClassifiedByMatchCount ==
    (Resolving /\ pc \in {"update", "done"}
               /\ result # RemoteError("SearchTracks")) =>
        LET m == Matching(idOrName(args[1])) IN
        /\ Cardinality(m) = 0 => result = NotFound
        /\ Cardinality(m) >= 2 => result = Ambiguous
        /\ Cardinality(m) = 1 =>
              /\ result \notin {NotFound, Ambiguous}
              /\ \A t \in m : track.Id = t.Id

\* C3: when resolution visited exactly one entity and UpdateTrack is called,
\* the Track sent has the Id of that entity and the Name, Description and
\* Head of the --name, --description and --package flags.
C3_UpdateSendsResolvedIdAndFlags ==
    \A i \in UpdateCalls :
        (Resolving /\ Len(visited) = 1) =>
            calls[i].track = FlagsOnto(visited[1].Id)

\* a single match whose own fields all differ from the flags was updated
C3_Witness ==
    /\ Resolving /\ Len(visited) = 1 /\ UpdateCalls # {}
    /\ visited[1].Id # ""
    /\ visited[1].Name # buildFlags.name
    /\ visited[1].Description # buildFlags.description
    /\ visited[1].Head # buildFlags.pkg

\* C4: with an empty argument list no SearchTracks call is issued, the verb
\* ends with exactly one UpdateTrack call, carrying an empty Id and the
\* flags, and with neither the not-found nor the ambiguity error.
C4_NoArgsGoesStraightToUpdate ==
    (verb = "set track" /\ Len(args) = 0) =>
        /\ SearchCalls = {}
        /\ visited = <<>>
        /\ result \notin {NotFound, Ambiguous}
        /\ \A i \in UpdateCalls : calls[i].track = FlagsOnto("")
        /\ pc = "done" => Cardinality(UpdateCalls) = 1

\* the verb ended without arguments and with a --name set
C4_Witness ==
    /\ verb = "set track" /\ Len(args) = 0 /\ pc = "done"
    /\ UpdateCalls # {} /\ buildFlags.name # ""

\* C5: UpdateTrack is called at most once and only after the search (if
\* any) has returned; an error returned by SearchTracks is the verb's result
\* and no UpdateTrack follows it; an error returned by UpdateTrack is the
\* verb's result; the track is printed only when UpdateTrack succeeded.
C5_UpdateOnceAndErrorsVerbatim ==
    verb = "set track" =>
        /\ Cardinality(UpdateCalls) <= 1
        /\ \A i \in UpdateCalls, j \in SearchCalls :
              j < i /\ calls[j].ret = Nil
        /\ \A j \in SearchCalls :
              calls[j].ret \notin {Nil, Running} =>
                  pc = "done" /\ result = calls[j].ret /\ UpdateCalls = {}
        /\ \A i \in UpdateCalls :
              /\ pc = "done" /\ result = calls[i].ret
              /\ calls[i].ret # Nil => out = <<>>
        /\ out # <<>> =>
              /\ Len(out) = 1
              /\ \E i \in UpdateCalls : calls[i].ret = Nil

\* the search failed remotely after the visitor had recorded a match
C5_Witness ==
    /\ Resolving /\ pc = "done"
    /\ result = RemoteError("SearchTracks")
    /\ track.Id # ""

\* an UpdateTrack call failed
C5_WitnessUpdateError ==
    /\ verb = "set track" /\ pc = "done"
    /\ result = RemoteError("UpdateTrack")

-----------------------------------------------------------------------------
(* Properties of the search verbs, checked under SpecSearch *)

Expression == Join(args, " ")

MalformedQuery == verb \in SearchVerbs /\ Parse(Expression) # Nil
AcceptedQuery == verb \in SearchVerbs /\ Parse(Expression) = Nil

StoreSearchCalls == {i \in 1..Len(calls) : calls[i].rpc = SearchRpc(verb)}
ConnectCalls == {i \in 1..Len(calls) : calls[i].rpc = "Connect"}
FailedConnects == {i \in ConnectCalls : calls[i].ret # Nil}

\* C6 as stated: for each of the four search verbs, a query text that does
\* not parse makes the verb return "Malformed search query" with the
\* parser's error as cause, with no call of any kind issued to the store,
\* before or after the parse.
C6_MalformedWithoutAnyStoreCall ==
    MalformedQuery =>
        /\ calls = <<>>
        /\ pc = "done" =>
              result = Explain(Parse(Expression), "Malformed search query")

\* C6 as amended: a query text that does not parse never leads to a Search
\* call; the artifact, package and track verbs issue no call at all and
\* return "Malformed search query" with the parser's error as cause; the
\* stash verb has called stashgrpc.Connect before parsing, returns Connect's
\* error if there is one and the same "Malformed search query" error
\* otherwise.
C6_MalformedAfterConnect ==
    MalformedQuery =>
        /\ StoreSearchCalls = {}
        /\ pc # "searching"
        /\ verb \in BuildSearchVerbs => calls = <<>>
        /\ \A i \in 1..Len(calls) : i \in ConnectCalls /\ i = 1
        /\ pc = "done" =>
              /\ verb = "search stash" => Len(calls) = 1
              /\ \A i \in FailedConnects : result = calls[i].ret
              /\ FailedConnects = {} =>
                    result = Explain(Parse(Expression), "Malformed search query")

\* the stash verb connected and then rejected a malformed query
C6_Witness ==
    /\ MalformedQuery /\ verb = "search stash" /\ pc = "done"
    /\ ConnectCalls # {} /\ FailedConnects = {}
    /\ result.msg = "Malformed search query"

\* C7 as stated: for each search verb with an accepted query, one record
\* per delivered entity is handed to the output, in delivery order, the
\* visitor never aborts the stream, and the verb returns exactly the result
\* of the Search call; with zero entities delivered nothing is written and
\* the verb returns no error.
C7_OneRecordPerEntityAndNoErrorOnNone ==
    AcceptedQuery =>
        /\ Len(out) = Len(visited)
        /\ \A i \in 1..Len(out) : out[i].rec = MarshalText(visited[i])
        /\ pc = "done" =>
              /\ StoreSearchCalls # {}
              /\ \A j \in StoreSearchCalls : result = calls[j].ret
              /\ visited = <<>> => out = <<>> /\ result = Nil

\* C7 as amended: once a search verb has issued its Search call (the query
\* parsed and, for stash, Connect succeeded), one record per delivered
\* entity is handed to the output, in delivery order, the visitor never
\* ends the stream (Search returns nil or a remote error only) and the verb
\* returns exactly what Search returned; when Search returns nil with zero
\* entities delivered, nothing is written and the verb returns no error.
\* Without a Search call (stash, Connect failed) nothing is visited or
\* written and the verb returns Connect's error.
C7_OneRecordPerEntityAndSearchResult ==
    AcceptedQuery =>
        /\ Len(out) = Len(visited)
        /\ \A i \in 1..Len(out) : out[i].rec = MarshalText(visited[i])
        /\ Cardinality(StoreSearchCalls) <= 1
        /\ \A j \in StoreSearchCalls :
              /\ calls[j].ret \in {Running, Nil, RemoteError(SearchRpc(verb))}
              /\ pc = "done" => result = calls[j].ret
              /\ (calls[j].ret = Nil /\ visited = <<>>) =>
                    out = <<>> /\ result = Nil
        /\ StoreSearchCalls = {} =>
              /\ visited = <<>> /\ out = <<>>
              /\ pc = "done" =>
                    /\ FailedConnects # {}
                    /\ \A i \in FailedConnects : result = calls[i].ret

\* two different entities were delivered, the second write failed, and the
\* search went on to end without error
C7_Witness ==
    /\ AcceptedQuery /\ pc = "done" /\ result = Nil
    /\ Len(visited) = 2 /\ visited[1] # visited[2]
    /\ out[1].err = Nil /\ out[2].err # Nil

-----------------------------------------------------------------------------
(* Properties of buildUploader.prepare, checked under SpecUpload *)

Prepared == verb = "upload build" /\ pc = "prepared"

\* what each guess detects, "" when its detection fails
DetectedCl == IF env.git /\ env.clOk THEN env.sha ELSE ""
DetectedDescription == IF env.git /\ env.clOk THEN env.subject ELSE ""
DetectedBranch == IF env.git /\ env.branchOk THEN env.branchName ELSE ""
DetectedUploader == IF env.userOk THEN env.userName ELSE ""

\* C8: prepare sets Type = BuildBot when git.New finds no repository,
\* Type = Local when there is one and its status reports a tree that is not
\* clean, and Type = User when there is one otherwise.
C8_TypeFollowsVersionControl ==
    Prepared =>
        /\ ~env.git => info.Type = "BuildBot"
        /\ env.git => info.Type \in {"User", "Local"}
        /\ (env.git /\ env.status = "dirty") => info.Type = "Local"
        /\ (env.git /\ env.status # "dirty") => info.Type = "User"

\* a repository with a dirty tree was prepared
C8_Witness ==
    Prepared /\ env.git /\ env.status = "dirty" /\ info.Type = "Local"

\* C9: prepare never overwrites a cl, description, branch or uploader flag
\* that was supplied; an empty one is filled from its own detected value
\* (cl and description independently of each other), and is left empty when
\* its detection failed.
C9_FlagsKeptAndGuessesIndependent ==
    Prepared =>
        /\ info.Cl = IF supplied.cl # "" THEN supplied.cl ELSE DetectedCl
        /\ info.Description = IF supplied.description # ""
                               THEN supplied.description
                               ELSE DetectedDescription
        /\ info.Branch = IF supplied.branch # "" THEN supplied.branch
                          ELSE DetectedBranch
        /\ info.Uploader = IF supplied.uploader # "" THEN supplied.uploader
                            ELSE DetectedUploader
        /\ buildFlags.cl = info.Cl
        /\ buildFlags.description = info.Description
        /\ buildFlags.branch = info.Branch
        /\ buildFlags.uploader = info.Uploader

\* a supplied cl was kept while the description was guessed from the head
\* change, and the branch detection failed
C9_Witness ==
    /\ Prepared /\ env.git /\ env.clOk /\ ~env.branchOk
    /\ supplied.cl # "" /\ info.Cl = supplied.cl
    /\ supplied.description = "" /\ info.Description = env.subject
    /\ supplied.branch = "" /\ info.Branch = ""

\* C10 as stated: prepare always returns nil and leaves a constructed
\* Information, and without a repository and without the --branch and
\* --uploader flags that Information has Type = BuildBot and Uploader = the
\* current OS user.
C10_NeverFailsAndUploaderIsOsUser ==
    (verb = "upload build" /\ pc # "start") =>
        /\ pc = "prepared" /\ result = Nil /\ info # NoInfo
        /\ (~env.git /\ supplied.branch = "" /\ supplied.uploader = "") =>
              info.Type = "BuildBot" /\ info.Uploader = env.userName

\* C10 as amended: prepare always returns nil and leaves a constructed
\* Information, and without a repository and without the --branch and
\* --uploader flags that Information has Type = BuildBot and Uploader = the
\* current OS user if user.Current succeeded, the empty string if it failed.
C10_NeverFailsAndUploaderIsLookedUp ==
    (verb = "upload build" /\ pc # "start") =>
        /\ pc = "prepared" /\ result = Nil /\ info # NoInfo
        /\ info.Type \in {"BuildBot", "User", "Local"}
        /\ (~env.git /\ supplied.branch = "" /\ supplied.uploader = "") =>
              /\ info.Type = "BuildBot"
              /\ info.Branch = ""
              /\ info.Uploader = IF env.userOk THEN env.userName ELSE ""

\* prepare ran with every collaborator failing and no flags
C10_Witness ==
    /\ Prepared /\ result = Nil
    /\ ~env.git /\ ~env.clOk /\ env.status = "error" /\ ~env.branchOk
    /\ ~env.userOk
    /\ supplied.branch = "" /\ supplied.uploader = ""
    /\ info.Type = "BuildBot" /\ info.Uploader = ""

-----------------------------------------------------------------------------
(* Properties of buildUploader.process, checked under SpecUpload *)

AddCalls == {i \in 1..Len(calls) : calls[i].rpc = "Add"}

AddedOk == {i \in AddCalls : calls[i].ret = Nil}

\* the line of `out` a successful Add call produced
LineOf(i) == out[Cardinality({k \in AddedOk : k <= i})]

\* C11: each process call issues exactly one Add call and no retry; a
\* failed Add makes process return "Failed processing build" with the
\* store's error as cause and report nothing; a successful Add makes it
\* return nil and report "Merged with build set <id>" exactly when the store
\* answered merged = true, "New build set <id>" otherwise, with the set id
\* the store returned.
C11_OneAddAndOutcomeReported ==
    verb = "upload build" =>
        /\ Len(calls) = Len(returns)
        /\ AddCalls = 1..Len(calls)
        /\ Len(out) = Cardinality(AddedOk)
        /\ \A i \in AddCalls :
              /\ calls[i].id = FilePool[i]
              /\ calls[i].ret # Nil =>
                    returns[i] = Explain(calls[i].ret, "Failed processing build")
              /\ calls[i].ret = Nil =>
                    /\ returns[i] = Nil
                    /\ calls[i].merged =>
                          LineOf(i) = "Merged with build set " \o calls[i].setId
                    /\ ~calls[i].merged =>
                          LineOf(i) = "New build set " \o calls[i].setId

\* a session whose first file failed, and whose second file was merged into
\* a set
C11_Witness ==
    /\ verb = "upload build" /\ Len(calls) = 2
    /\ calls[1].ret # Nil /\ returns[1].msg = "Failed processing build"
    /\ calls[2].ret = Nil /\ calls[2].merged
    /\ out = <<"Merged with build set " \o calls[2].setId>>

\* C19: within one upload session every process call passes the same
\* Information to the store, the one prepare constructed: no process call,
\* whatever its outcome or file id, changes it.
C19_SameInformationForEveryFile ==
    verb = "upload build" =>
        /\ \A i \in AddCalls : calls[i].info = info
        /\ \A i \in AddCalls, j \in AddCalls : calls[i].info = calls[j].info
        /\ pc = "prepared" => info.Tag = supplied.tag

\* two files with different ids and different outcomes were sent the same
\* Information
C19_Witness ==
    /\ verb = "upload build" /\ Len(calls) = 2
    /\ calls[1].id # calls[2].id
    /\ calls[1].ret = Nil /\ calls[2].ret # Nil
    /\ calls[1].info = calls[2].info
    /\ info.Tag # ""

\* C17 as stated: Type = User is produced only for a tree observed clean
\* with a detected change id, Type = Local only for a tree observed dirty,
\* Type = BuildBot only without any version-control signal.
C17_UserMeansCleanWithChangeId ==
    Prepared =>
        /\ info.Type = "User" =>
              env.git /\ env.status = "clean" /\ env.clOk
        /\ info.Type = "Local" => env.git /\ env.status = "dirty"
        /\ info.Type = "BuildBot" => ~env.git

\* C17 as amended: Type = User is produced exactly when a repository was
\* found and its status did not report a dirty tree (it reported a clean
\* one or failed), whether or not a change id was detected; Type = Local
\* only for a tree observed dirty, Type = BuildBot only without a repository.
C17_UserMeansNotObservedDirty ==
    Prepared =>
        /\ info.Type = "User" =>
              env.git /\ env.status \in {"clean", "error"}
        /\ (env.git /\ env.status = "error" /\ ~env.clOk) =>
              info.Type = "User"
        /\ info.Type = "Local" => env.git /\ env.status = "dirty"
        /\ info.Type = "BuildBot" => ~env.git

\* Type = User although the status failed and no change id was detected
C17_Witness ==
    /\ Prepared /\ info.Type = "User"
    /\ env.git /\ env.status = "error" /\ ~env.clOk
    /\ info.Cl = ""

-----------------------------------------------------------------------------
(* Properties of stashUploader, checked under SpecUpload *)

\* C20: stashUploader.prepare and stashUploader.process return no error for
\* every file id, issue no call to any store and change no state: nothing is
\* reported, buildFlags stays as parsed and no Information is built.
C20_StashUploaderIsNoOp ==
    verb = "upload stash" =>
        /\ calls = <<>>
        /\ out = <<>>
        /\ info = NoInfo
        /\ buildFlags = supplied
        /\ pc \in {"start", "prepared"}
        /\ pc = "prepared" => result = Nil
        /\ \A i \in 1..Len(returns) : returns[i] = Nil

\* a stash session that processed every file
C20_Witness ==
    /\ verb = "upload stash" /\ pc = "prepared"
    /\ Len(returns) = MaxFiles /\ budget = 0

-----------------------------------------------------------------------------
(* Error propagation across the verbs *)

\* the errors of the writes the visitor of a search verb made
WriteErrors == {out[i].err : i \in 1..Len(out)} \ {Nil}

\* every call that returned an error, and no call issued twice
SearchErrorsReturned ==
    /\ Cardinality(StoreSearchCalls) <= 1
    /\ pc = "done" =>
          \A i \in 1..Len(calls) : calls[i].ret # Nil => result = calls[i].ret

ProcessErrorsReturned ==
    /\ Len(calls) = Len(returns)
    /\ \A i \in 1..Len(calls) :
          calls[i].ret # Nil => returns[i].cause = calls[i].ret.msg

UpdateErrorsReturned ==
    /\ Len(calls) <= 2
    /\ pc = "done" =>
          \A i \in 1..Len(calls) : calls[i].ret # Nil => result = calls[i].ret

\* C16: no error is silently swallowed and nothing is retried: an error
\* produced during a search verb (the error of writing a visited entity
\* included), an upload process call or a track update reaches the return
\* value of the verb or of the process call.
C16_NoErrorSwallowed ==
    /\ verb \in SearchVerbs =>
          /\ SearchErrorsReturned
          /\ (pc = "done" /\ WriteErrors # {}) => result # Nil
    /\ verb = "upload build" => ProcessErrorsReturned
    /\ verb = "set track" => UpdateErrorsReturned

-----------------------------------------------------------------------------
(* Resolution in doTrackUpdate, continued *)

\* C18: during resolution the visitor returns the ambiguity error on the
\* first entity visited after a match was recorded and nothing is visited
\* after that: the visitor is invoked at most twice, whatever the length of
\* the stream, a second visit always ends the search with the ambiguity
\* error, and the recorded match is never replaced by a later entity's Id.
C18_AtMostTwoVisitsAndMatchKept ==
    Resolving =>
        /\ Len(visited) <= 2
        /\ Len(visited) = 2 =>
              \A j \in SearchCalls : calls[j].ret = Ambiguous
        /\ Len(visited) >= 1 => track.Id = visited[1].Id

-----------------------------------------------------------------------------
(* Properties of two runs of set track, checked under SpecTwice *)

RemoteErrors == {RemoteError("SearchTracks"), RemoteError("UpdateTrack")}

\* the second run has ended, the token is the id of a stored track, the
\* first run resolved it and updated it, and the second met no remote error
UpdatedThenRanAgain ==
    /\ verb = "set track" /\ pc = "done" /\ Len(returns) = 1
    /\ \E t \in tracks : t.Id = args[1]
    /\ returns[1] = Nil
    /\ result \notin RemoteErrors

\* C15: running set track twice with the same track id as token and the
\* same flags, the second run resolves to the same track as the first and
\* sends an identical Track to UpdateTrack, and the track it leaves equals
\* the one the first run left.
C15_SecondRunRepeatsTheFirst ==
    UpdatedThenRanAgain =>
        /\ result = Nil
        /\ Cardinality(UpdateCalls) = 2
        /\ \A i \in UpdateCalls, j \in UpdateCalls :
              calls[i].track = calls[j].track
        /\ \A i \in UpdateCalls : calls[i].track = FlagsOnto(args[1])
        /\ Len(out) = 2 /\ out[1] = out[2]

-----------------------------------------------------------------------------
(* Properties of guessSemantics, checked under SpecGuess *)

Guessing == verb = "guessSemantics"

GuessReturned == Guessing /\ pc = "done"

Patterns == 1..Len(semanticPatterns)

\* the assignments made to stream j, as positions in `fired`
FiredOn(j) == {k \in 1..Len(fired) : fired[k].stream = j}

\* the first and the last rule that assigned stream j
FirstRuleOn(j) ==
    fired[CHOOSE k \in FiredOn(j) : \A m \in FiredOn(j) : k <= m].rule

LastRuleOn(j) ==
    fired[CHOOSE k \in FiredOn(j) : \A m \in FiredOn(j) : k >= m].rule

\* the name of stream j, compared case-insensitively, contains rule r's
\* pattern
NameContains(j, r) ==
    Contains(ToLower(given[j].Name), semanticPatterns[r].pattern)

\* rule r's label is not claimed against stream j: no higher-priority rule
\* assigned that label, and r itself assigned no other stream
Unclaimed(r, j) ==
    \A k \in 1..Len(fired) :
        /\ fired[k].rule < r =>
              semanticPatterns[fired[k].rule].semantic #
                  semanticPatterns[r].semantic
        /\ fired[k].rule = r => fired[k].stream = j

Candidates(j) == {r \in Patterns : NameContains(j, r) /\ Unclaimed(r, j)}

HighestUnclaimed(j) ==
    CHOOSE r \in Candidates(j) : \A q \in Candidates(j) : r <= q

\* the buffer of the example: "Position0" and "vertex_pos", both unlabelled
ExampleBuffer ==
    <<[Name |-> <<"P", "o", "s", "i", "t", "i", "o", "n", "0">>,
       Semantic |-> "Unknown"],
      [Name |-> <<"v", "e", "r", "t", "e", "x", "_", "p", "o", "s">>,
       Semantic |-> "Unknown"]>>

\* C12: rules are applied strictly in declared priority order and the first
\* match per stream wins: once a rule has labelled a stream no lower-priority
\* rule changes that stream's label, so every labelled stream carries the
\* label of the highest-priority unclaimed rule whose pattern its name
\* contains; "Position0" and "vertex_pos" end as Position and unset.
C12_PriorityOrderAndFirstMatchWins ==
    Guessing =>
        /\ \A k, m \in 1..Len(fired) :
              k < m => fired[k].rule < fired[m].rule
        /\ \A j \in 1..Len(streams) :
              FiredOn(j) # {} =>
                 /\ streams[j].Semantic =
                       semanticPatterns[FirstRuleOn(j)].semantic
                 /\ Candidates(j) # {}
                 /\ streams[j].Semantic =
                       semanticPatterns[HighestUnclaimed(j)].semantic
        /\ (GuessReturned /\ given = ExampleBuffer) =>
              /\ streams[1].Semantic = "Position"
              /\ streams[2].Semantic = "Unknown"

\* C13: a rule whose label an earlier rule has claimed assigns nothing; a
\* rule that fires labels exactly one stream, the first in buffer order whose
\* lower-cased name contains the pattern; so on a buffer whose streams all
\* start unlabelled no two streams end with the same label.
C13_ClaimedRuleSilentOneStreamPerRule ==
    Guessing =>
        /\ \A k, m \in 1..Len(fired) :
              k # m => semanticPatterns[fired[k].rule].semantic #
                          semanticPatterns[fired[m].rule].semantic
        /\ \A k \in 1..Len(fired) :
              /\ fired[k].rule \in Patterns
              /\ fired[k].stream \in 1..Len(given)
              /\ NameContains(fired[k].stream, fired[k].rule)
              /\ \A j \in 1..(fired[k].stream - 1) :
                    ~NameContains(j, fired[k].rule)
        /\ Len(streams) = Len(given)
        /\ \A j \in 1..Len(streams) :
              streams[j] =
                 IF FiredOn(j) = {} THEN given[j]
                 ELSE [given[j] EXCEPT
                          !.Semantic = semanticPatterns[LastRuleOn(j)].semantic]
        /\ (GuessReturned
              /\ \A j \in 1..Len(given) : given[j].Semantic = "Unknown") =>
              \A i, j \in 1..Len(streams) :
                 (i # j /\ streams[i].Semantic # "Unknown") =>
                    streams[i].Semantic # streams[j].Semantic

\* a returned pass on unlabelled streams in which two rules fired and a rule
\* with a matching stream stayed silent because its label was claimed
C13_Witness ==
    /\ GuessReturned
    /\ \A j \in 1..Len(given) : given[j].Semantic = "Unknown"
    /\ Len(fired) = 2
    /\ \E r \in Patterns :
          /\ \E j \in 1..Len(given) : NameContains(j, r)
          /\ \A k \in 1..Len(fired) : fired[k].rule # r
          /\ semanticPatterns[r].semantic \in taken

\* no pattern occurs in the name of stream j
Unmatched(j) == \A r \in Patterns : ~NameContains(j, r)

\* C14: a stream whose name, compared case-insensitively, contains none of
\* the patterns keeps its semantic label as it was before the call, and the
\* pass has no error outcome for any buffer, the empty one included.
C14_UnmatchedKeptAndNoErrorOutcome ==
    Guessing =>
        /\ Len(streams) = Len(given)
        /\ \A j \in 1..Len(streams) : Unmatched(j) => streams[j] = given[j]
        /\ result \in {Running, Nil}
        /\ GuessReturned => (result = Nil /\ rule = Len(semanticPatterns) + 1)
        /\ given = <<>> => (streams = <<>> /\ fired = <<>>)

\* a returned pass that labelled one stream and left a stream labelled Color,
\* whose name no pattern occurs in, as it was
C14_Witness ==
    /\ GuessReturned
    /\ Len(fired) >= 1
    /\ \E j \in 1..Len(given) :
          /\ Unmatched(j)
          /\ given[j].Semantic = "Color"
          /\ streams[j].Semantic = "Color"

====
